---- MODULE Spec2Model ----
(***************************************************************************)
(* Flight-Booking-Service: the booking lifecycle.                          *)
(*                                                                         *)
(* State machine of the booking controller, the booking service, the       *)
(* booking repository and the cron sweeper, with the remote flight         *)
(* service as an external collaborator.  Every await of the JavaScript     *)
(* code is a scheduling point.  A handler is cut at the awaits at which it *)
(* reads or writes state other requests can see (the flight service, the   *)
(* committed Bookings table, inMemoryCache); awaits that touch only the    *)
(* request's own transaction or locals are joined to the step before them, *)
(* which loses no interleaving another request can observe.                *)
(*                                                                         *)
(* Time is kept in milliseconds, as Date arithmetic does.                  *)
(***************************************************************************)
EXTENDS Integers, Sequences, FiniteSets, TLC

\* ------------------------------------------------------------- bounds
\* The number of booking rows ever inserted (ids 1..MaxBookings).
MaxBookings == 1
\* The clock stops advancing here (23.25 minutes).
MaxNow == 1395000
\* Seats a request may ask for (0..MaxSeats); also the flight's initial seats.
MaxSeats == 2

\* ------------------------------------------------- program constants
\* booking-service.js:58  (1000 * 60)
MsPerMinute == 60000
\* booking-service.js:65  diffInMinutes > 15
PaymentWindowMinutes == 15

\* Enum.BOOKING_STATUS
INITIATED == "initiated"
CANCELLED == "cancelled"
PENDING == "pending"
BOOKED == "booked"

\* The property of inMemoryCache the controller reads and writes.
CacheSlot == "x-idempotency-key"

\* JavaScript's undefined, as a value comparable with records.
Undefined == [undefined |-> TRUE]

\* ------------------------------------------------------ input domains
\* Concurrent request slots of the single Node.js process.
Procs == {1, 2}
Flights == {1}
Users == {1, 2}
\* x-idempotency-key header values; "" is the absent (falsy) header.
Keys == {"", "k1", "k2"}
\* Unit prices the flight service may quote.
Prices == {2, 4}
\* totalCost values a payment request may carry.
Amounts == {2, 4}
\* Clock advances: 7.75 minutes, so that elapsed times within the window
\* (7.75 min), between 15 and 16 minutes (15.5 min) and beyond (23.25 min)
\* all occur.
TimeSteps == {465000}

VARIABLES
    now,            \* wall clock, ms
    flight,         \* the remote flight: [totalSeats, price]
    adjustLog,      \* PATCH /seats requests received, by the booking id of the caller
    nextId,         \* auto-increment of the Bookings table
    bookings,       \* committed rows of the Bookings table, by id
    statusSetBy,    \* history: who last wrote each row's status
    inMemoryCache,  \* booking-controller.js inMemoryCache
    paid,           \* history: the first success response to a payment, by idempotency key
    proc,           \* the request each slot is executing, and where it is
    out,            \* the HTTP response being sent, if any
    taskError       \* the rejection of the cron callback being reported, if any

vars == <<now, flight, adjustLog, nextId, bookings, statusSetBy,
          inMemoryCache, paid, proc, out, taskError>>

Idle == [kind |-> "idle"]

\* ----------------------------------------------------------- errors
AppError(message, statusCode) ==
    [name |-> "AppError", explanation |-> message, statusCode |-> statusCode]

\* booking-repository.js never requires AppError: `new AppError` in it
\* throws a ReferenceError, which carries no statusCode (0 here).
ReferenceError ==
    [name |-> "ReferenceError", explanation |-> "AppError is not defined",
     statusCode |-> 0]

\* booking-service.js exports createBooking and makePayment only: the call
\* BookingService.cancelOldBookings() throws a TypeError.
TypeError ==
    [name |-> "TypeError",
     explanation |-> "BookingService.cancelOldBookings is not a function",
     statusCode |-> 0]

\* axios rejects on a non-2xx answer or a network failure.
AxiosError ==
    [name |-> "AxiosError", explanation |-> "Request failed", statusCode |-> 0]

\* sequelize rejects transaction.commit().
DatabaseError ==
    [name |-> "SequelizeDatabaseError", explanation |-> "commit failed",
     statusCode |-> 0]

\* ------------------------------------------------------ HTTP responses
SuccessResponse(op, code, message, data) ==
    [op |-> op, success |-> TRUE, code |-> code, message |-> message,
     data |-> data, error |-> Undefined]

ErrorResponse(op, message, error) ==
    [op |-> op, success |-> FALSE, code |-> error.statusCode,
     message |-> message, data |-> Undefined, error |-> error]

\* ------------------------------------------------------- repository
\* Mutant of NewBooking: the model's defaultValue is PENDING.
NewBookingPending(id, data, createdAt) ==
    [id |-> id, flightId |-> data.flightId, userId |-> data.userId,
     noOfSeats |-> data.noOfSeats, totalCost |-> data.totalCost,
     status |-> PENDING, createdAt |-> createdAt]

\* Booking.create(data, {transaction}): the row the insert builds; status
\* takes the model's defaultValue.
NewBooking(id, data, createdAt) ==
    [id |-> id, flightId |-> data.flightId, userId |-> data.userId,
     noOfSeats |-> data.noOfSeats, totalCost |-> data.totalCost,
     status |-> INITIATED, createdAt |-> createdAt]

\* Mutant of Update: the UPDATE runs inside the caller's transaction, as the
\* third argument suggests; when the caller then throws, the rollback
\* undoes it, and until commit no other request sees it.
UpdateInTransaction(store, status, id) == store

\* Mutant of Update: the UPDATE also recomputes the cost from the flight's
\* current price.
UpdateRepricing(store, status, id) ==
    [i \in DOMAIN store |->
        IF i = id
        THEN [store[i] EXCEPT !.status = status,
                              !.totalCost = store[i].noOfSeats * flight.price]
        ELSE store[i]]

\* Mutant of Update: cancelling goes through CrudRepository.destroy.
UpdateDestroying(store, status, id) ==
    IF status = CANCELLED
    THEN [i \in DOMAIN store \ {id} |-> store[i]]
    ELSE [i \in DOMAIN store |->
             IF i = id THEN [store[i] EXCEPT !.status = status] ELSE store[i]]

\* BookingRepository.update(data, id, transaction): Model.update(values,
\* options) takes two arguments, so {transaction} is dropped: the UPDATE
\* runs outside the transaction, is committed at once, and its WHERE
\* names the id only.
Update(store, status, id) ==
    [i \in DOMAIN store |->
        IF i = id THEN [store[i] EXCEPT !.status = status] ELSE store[i]]

\* Mutant of CancelWhere: the WHERE clause without the test on cancelled.
CancelWhereCancelledToo(booking, timestamp) ==
    /\ booking.createdAt < timestamp
    /\ booking.status # BOOKED

\* The WHERE clause of cancelOldBookings.
CancelWhere(booking, timestamp) ==
    /\ booking.createdAt < timestamp
    /\ booking.status # BOOKED
    /\ booking.status # CANCELLED

\* BookingRepository.cancelOldBookings(timestamp): one UPDATE.
CancelOldBookings(store, timestamp) ==
    [i \in DOMAIN store |->
        IF CancelWhere(store[i], timestamp)
        THEN [store[i] EXCEPT !.status = CANCELLED]
        ELSE store[i]]

\* Who wrote the status of each row, after a write by `who`.
SetBy(old, new, who) ==
    [i \in DOMAIN new |->
        IF i \in DOMAIN old /\ new[i].status = old[i].status
        THEN statusSetBy[i] ELSE who]

\* ------------------------------------------------------ service helpers
\* Math.floor((currentTime - bookingTime) / (1000 * 60))
DiffInMinutes(currentTime, bookingTime) ==
    (currentTime - bookingTime) \div MsPerMinute

\* Mutant of TotalCost: the unit price taken for the total.
TotalCostOfOneSeat(noOfSeats, flightData) == flightData.price

\* data.noOfSeats * flightData.price
TotalCost(noOfSeats, flightData) == noOfSeats * flightData.price

\* Mutant of KeyMissing: the check of the header is missing.
KeyMissingNever(idempotencyKey) == FALSE

\* !idempotencyKey
KeyMissing(idempotencyKey) == idempotencyKey = ""

\* inMemoryCache["x-idempotency-key"] === idempotencyKey; a property
\* never set reads undefined, as an absent header does.
CacheHit(cache, idempotencyKey) ==
    IF CacheSlot \in DOMAIN cache
    THEN cache[CacheSlot] = idempotencyKey
    ELSE idempotencyKey = ""

\* inMemoryCache[idempotencyKey]
CacheGet(cache, idempotencyKey) ==
    IF idempotencyKey \in DOMAIN cache
    THEN [value |-> cache[idempotencyKey]] ELSE Undefined

\* inMemoryCache["x-idempotency-key"] = idempotencyKey
CachePut(cache, idempotencyKey) ==
    [k \in DOMAIN cache \cup {CacheSlot} |->
        IF k = CacheSlot THEN idempotencyKey ELSE cache[k]]

Creating(p) == proc[p].kind = "create"
Paying(p) == proc[p].kind = "pay"

\* A response is on its way out.
Responding == out # Undefined

\* Nothing is on its way out: no response, no report of the cron task.
Ready == out = Undefined /\ taskError = Undefined

\* A request entering the process takes the first free slot.
Free(p) == proc[p] = Idle /\ \A q \in Procs : q < p => proc[q] # Idle

\* ---------------------------------------------------------------- Init
Init ==
    /\ now = 0
    /\ flight \in [totalSeats : {MaxSeats}, price : Prices]
    /\ adjustLog = <<>>
    /\ nextId = 1
    /\ bookings = <<>>
    /\ statusSetBy = <<>>
    /\ inMemoryCache = <<>>
    /\ paid = <<>>
    /\ proc = [p \in Procs |-> Idle]
    /\ out = Undefined
    /\ taskError = Undefined

\* ------------------------------------------------------- environment
\* Time passes.
Advance(d) ==
    /\ Ready
    /\ now + d <= MaxNow
    /\ now' = now + d
    /\ UNCHANGED out
    /\ UNCHANGED <<flight, adjustLog, nextId, bookings, statusSetBy,
                   inMemoryCache, paid, proc, taskError>>

\* The flight service changes the flight's price.
SetPrice(price) ==
    /\ Ready
    /\ price # flight.price
    /\ flight' = [flight EXCEPT !.price = price]
    /\ UNCHANGED out
    /\ UNCHANGED <<now, adjustLog, nextId, bookings, statusSetBy,
                   inMemoryCache, paid, proc, taskError>>

\* ------------------------------------------------ createBooking (POST /bookings)
\* The capacity check of createBooking on the flight read.
NotEnoughSeats(data, flightData) == data.noOfSeats > flightData.totalSeats

\* const bookingPayload = {...data, totalCost}
BookingPayload(data, flightData) ==
    [flightId |-> data.flightId, userId |-> data.userId,
     noOfSeats |-> data.noOfSeats,
     totalCost |-> TotalCost(data.noOfSeats, flightData)]

\* Mutant of CreateFailure: the catch block rethrows what it caught, as
\* makePayment's does.
CreateFailureRethrown(error) == error

\* What the catch block of the service's createBooking throws, whatever it caught.
CreateFailure(error) ==
    AppError("Cannot create a new booking object", 500)

\* catch: transaction.rollback() drops the uncommitted row; the controller
\* answers with the status of the error the service threw.
CreateRollback(error) ==
    ErrorResponse("createBooking", "Failed to create booking", CreateFailure(error))

\* Controller createBooking -> service: open a transaction, axios.get
\* answers, capacity is enough, the cost is computed and the INSERT runs
\* inside the transaction (the row gets its id and createdAt and stays
\* invisible until commit); then axios.patch is issued.  `price` keeps
\* flightData.price, the unit price this call read.
\* The guard bounds the rows ever inserted.
CreateStart(p, data) ==
    /\ Ready
    /\ Free(p)
    /\ nextId <= MaxBookings
    /\ ~NotEnoughSeats(data, flight)
    /\ nextId' = nextId + 1
    /\ proc' = [proc EXCEPT ![p] =
          [kind |-> "create", pc |-> "patch", price |-> flight.price,
           booking |-> NewBooking(nextId, BookingPayload(data, flight), now)]]
    /\ UNCHANGED out
    /\ UNCHANGED <<now, flight, adjustLog, bookings, statusSetBy,
                   inMemoryCache, paid, taskError>>

\* As CreateStart, but the flight has fewer seats than asked for: the
\* service throws before the INSERT, the catch block rolls back and rethrows.
CreateNoSeats(p, data) ==
    /\ Ready
    /\ Free(p)
    /\ NotEnoughSeats(data, flight)
    /\ out' = CreateRollback(AppError("Not enough seats available", 400))
    /\ UNCHANGED <<now, flight, adjustLog, nextId, bookings, statusSetBy,
                   inMemoryCache, paid, proc, taskError>>

\* As CreateStart, but axios.get rejects.
CreateFetchFail(p, data) ==
    /\ Ready
    /\ Free(p)
    /\ out' = CreateRollback(AxiosError)
    /\ UNCHANGED <<now, flight, adjustLog, nextId, bookings, statusSetBy,
                   inMemoryCache, paid, proc, taskError>>

\* Mutant of Acknowledged: the PATCH answer's failure is swallowed.
AcknowledgedAnyway(outcome) == TRUE

\* await axios.patch(...) resolves, and createBooking goes on to commit,
\* only on an acknowledged decrement.
Acknowledged(outcome) == outcome = "ok"

\* Mutant of CreatePatch: a PATCH that is not acknowledged is sent again.
CreatePatchRetrying(p, outcome) ==
    /\ Ready
    /\ Creating(p) /\ proc[p].pc = "patch"
    /\ LET seats == proc[p].booking.noOfSeats
           id == proc[p].booking.id
       IN /\ outcome \in {"ok", "lost"} => seats <= flight.totalSeats
          /\ flight' = IF outcome = "fail" THEN flight
                       ELSE [flight EXCEPT !.totalSeats = @ - seats]
          /\ adjustLog' = (id :> [seats |-> seats, outcome |-> outcome]) @@ adjustLog
    /\ IF Acknowledged(outcome)
       THEN proc' = [proc EXCEPT ![p].pc = "commit"]
       ELSE proc' = proc
    /\ UNCHANGED <<now, nextId, bookings, statusSetBy, inMemoryCache, paid,
                   out, taskError>>

\* The flight service answers PATCH /seats {seats, dec: 1}:
\*   "ok"   decremented and acknowledged,
\*   "fail" refused or unreachable, nothing decremented,
\*   "lost" decremented, but the answer never reaches the caller.
\* Without an acknowledgement axios rejects, and the catch block rolls back.
CreatePatch(p, outcome) ==
    /\ Ready
    /\ Creating(p) /\ proc[p].pc = "patch"
    /\ LET seats == proc[p].booking.noOfSeats
           id == proc[p].booking.id
       IN /\ outcome \in {"ok", "lost"} => seats <= flight.totalSeats
          /\ flight' = IF outcome = "fail" THEN flight
                       ELSE [flight EXCEPT !.totalSeats = @ - seats]
          /\ adjustLog' = (id :> [seats |-> seats, outcome |-> outcome]) @@ adjustLog
    /\ IF Acknowledged(outcome)
       THEN /\ proc' = [proc EXCEPT ![p].pc = "commit"]
            /\ UNCHANGED out
       ELSE /\ proc' = [proc EXCEPT ![p] = Idle]
            /\ out' = CreateRollback(AxiosError)
    /\ UNCHANGED <<now, nextId, bookings, statusSetBy, inMemoryCache, paid, taskError>>

\* transaction.commit() succeeds; the service returns the booking and the
\* controller answers 201.
CreateCommit(p) ==
    /\ Ready
    /\ Creating(p) /\ proc[p].pc = "commit"
    /\ LET booking == proc[p].booking
       IN /\ bookings' = (booking.id :> booking) @@ bookings
          /\ statusSetBy' = (booking.id :> "create") @@ statusSetBy
          /\ out' = SuccessResponse("createBooking", 201, "Booking created successfully", booking)
    /\ proc' = [proc EXCEPT ![p] = Idle]
    /\ UNCHANGED <<now, flight, adjustLog, nextId, inMemoryCache, paid, taskError>>

\* Mutant of CreateCommitFail: transaction.commit() is not awaited, so its
\* rejection goes unnoticed and the service returns the booking.
CreateCommitFailUnnoticed(p) ==
    /\ Ready
    /\ Creating(p) /\ proc[p].pc = "commit"
    /\ proc' = [proc EXCEPT ![p] = Idle]
    /\ out' = SuccessResponse("createBooking", 201, "Booking created successfully",
                              proc[p].booking)
    /\ UNCHANGED <<now, flight, adjustLog, nextId, bookings, statusSetBy,
                   inMemoryCache, paid, taskError>>

\* transaction.commit() rejects; the catch block rolls back.
CreateCommitFail(p) ==
    /\ Ready
    /\ Creating(p) /\ proc[p].pc = "commit"
    /\ proc' = [proc EXCEPT ![p] = Idle]
    /\ out' = CreateRollback(DatabaseError)
    /\ UNCHANGED <<now, flight, adjustLog, nextId, bookings, statusSetBy,
                   inMemoryCache, paid, taskError>>

\* ------------------------------------------- makePayment (POST /bookings/payments)
\* catch of the service's makePayment: transaction.rollback() (the
\* transaction holds no write), rethrow; the controller answers with the
\* error's status.
PayRollback(error) ==
    ErrorResponse("makePayment", "Failed to pay for the booking", error)

\* Controller makePayment, header absent: 400 before anything else.
PayNoKey(p, idempotencyKey, data) ==
    /\ Ready
    /\ Free(p)
    /\ KeyMissing(idempotencyKey)
    /\ out' = PayRollback(AppError("Idempotency key is required", 400))
    /\ UNCHANGED <<now, flight, adjustLog, nextId, bookings, statusSetBy,
                   inMemoryCache, paid, proc, taskError>>

\* Controller makePayment, the key is the one the cache slot holds: 200 with
\* whatever the cache holds under the key itself.
PayCached(p, idempotencyKey, data) ==
    /\ Ready
    /\ Free(p)
    /\ ~KeyMissing(idempotencyKey)
    /\ CacheHit(inMemoryCache, idempotencyKey)
    /\ out' = SuccessResponse("makePayment", 200, "Payment already processed",
                              CacheGet(inMemoryCache, idempotencyKey))
    /\ UNCHANGED <<now, flight, adjustLog, nextId, bookings, statusSetBy,
                   inMemoryCache, paid, proc, taskError>>

\* Mutant of PaymentDecision: the check of the paying user is missing.
PaymentDecisionOwnerUnchecked(booking, data, currentTime) ==
    IF booking.status = CANCELLED
    THEN [pc |-> "rollback", error |-> AppError("Booking payment time expired", 400)]
    ELSE IF DiffInMinutes(currentTime, booking.createdAt) > PaymentWindowMinutes
    THEN [pc |-> "cancel", error |-> Undefined]
    ELSE IF booking.totalCost # data.totalCost
    THEN [pc |-> "rollback", error |-> AppError("Payment amount mismatch", 400)]
    ELSE [pc |-> "book", error |-> Undefined]

\* Mutant of PaymentDecision: the test of a cancelled booking is missing.
PaymentDecisionCancelledUnchecked(booking, data, currentTime) ==
    IF DiffInMinutes(currentTime, booking.createdAt) > PaymentWindowMinutes
    THEN [pc |-> "cancel", error |-> Undefined]
    ELSE IF booking.totalCost # data.totalCost
    THEN [pc |-> "rollback", error |-> AppError("Payment amount mismatch", 400)]
    ELSE IF booking.userId # data.userId
    THEN [pc |-> "rollback", error |-> AppError("User ID mismatch", 400)]
    ELSE [pc |-> "book", error |-> Undefined]

\* What the service's makePayment decides from the row it read, between the
\* read and its next await: the error it throws, or the status it writes.
PaymentDecision(booking, data, currentTime) ==
    IF booking.status = CANCELLED
    THEN [pc |-> "rollback", error |-> AppError("Booking payment time expired", 400)]
    ELSE IF DiffInMinutes(currentTime, booking.createdAt) > PaymentWindowMinutes
    THEN [pc |-> "cancel", error |-> Undefined]
    ELSE IF booking.totalCost # data.totalCost
    THEN [pc |-> "rollback", error |-> AppError("Payment amount mismatch", 400)]
    ELSE IF booking.userId # data.userId
    THEN [pc |-> "rollback", error |-> AppError("User ID mismatch", 400)]
    ELSE [pc |-> "book", error |-> Undefined]

\* The controller passed the cache check and called the service.
PayEnters(p, idempotencyKey) ==
    /\ Ready
    /\ Free(p)
    /\ ~KeyMissing(idempotencyKey)
    /\ ~CacheHit(inMemoryCache, idempotencyKey)

\* Controller makePayment, no hit -> service: open a transaction,
\* bookingRepository.get answers with the committed row, and the service
\* issues an UPDATE.  `seen` keeps the status the call read.
PayStart(p, idempotencyKey, data) ==
    /\ PayEnters(p, idempotencyKey)
    /\ data.bookingId \in DOMAIN bookings
    /\ LET booking == bookings[data.bookingId]
           d == PaymentDecision(booking, data, now)
       IN /\ d.pc # "rollback"
          /\ proc' = [proc EXCEPT ![p] =
                [kind |-> "pay", pc |-> d.pc, key |-> idempotencyKey,
                 bookingId |-> data.bookingId, seen |-> booking.status]]
    /\ UNCHANGED out
    /\ UNCHANGED <<now, flight, adjustLog, nextId, bookings, statusSetBy,
                   inMemoryCache, paid, taskError>>

\* Mutant of PayReject: the controller stores the key before it calls the
\* service, so a rejected call leaves it in the cache.
PayRejectCaching(p, idempotencyKey, data) ==
    /\ PayEnters(p, idempotencyKey)
    /\ data.bookingId \in DOMAIN bookings
    /\ LET d == PaymentDecision(bookings[data.bookingId], data, now)
       IN /\ d.pc = "rollback"
          /\ out' = PayRollback(d.error)
    /\ inMemoryCache' = CachePut(inMemoryCache, idempotencyKey)
    /\ UNCHANGED <<now, flight, adjustLog, nextId, bookings, statusSetBy,
                   paid, proc, taskError>>

\* As PayStart, but the service throws on the row it read.
PayReject(p, idempotencyKey, data) ==
    /\ PayEnters(p, idempotencyKey)
    /\ data.bookingId \in DOMAIN bookings
    /\ LET d == PaymentDecision(bookings[data.bookingId], data, now)
       IN /\ d.pc = "rollback"
          /\ out' = PayRollback(d.error)
    /\ UNCHANGED <<now, flight, adjustLog, nextId, bookings, statusSetBy,
                   inMemoryCache, paid, proc, taskError>>

\* As PayStart, but bookingRepository.get finds no row.
PayGetMissing(p, idempotencyKey, data) ==
    /\ PayEnters(p, idempotencyKey)
    /\ data.bookingId \notin DOMAIN bookings
    /\ out' = PayRollback(ReferenceError)
    /\ UNCHANGED <<now, flight, adjustLog, nextId, bookings, statusSetBy,
                   inMemoryCache, paid, proc, taskError>>

\* The UPDATE to cancelled runs; then the service throws and the catch
\* block rolls the transaction back.
PayCancel(p) ==
    /\ Ready
    /\ Paying(p) /\ proc[p].pc = "cancel"
    /\ bookings' = Update(bookings, CANCELLED, proc[p].bookingId)
    /\ statusSetBy' = SetBy(bookings, bookings', "pay")
    /\ proc' = [proc EXCEPT ![p] = Idle]
    /\ out' = PayRollback(AppError("Booking payment time expired", 400))
    /\ UNCHANGED <<now, flight, adjustLog, nextId, inMemoryCache, paid, taskError>>

\* The UPDATE to booked runs; then the service commits.
PayBook(p) ==
    /\ Ready
    /\ Paying(p) /\ proc[p].pc = "book"
    /\ bookings' = Update(bookings, BOOKED, proc[p].bookingId)
    /\ statusSetBy' = SetBy(bookings, bookings', "pay")
    /\ proc' = [proc EXCEPT ![p].pc = "commit"]
    /\ UNCHANGED out
    /\ UNCHANGED <<now, flight, adjustLog, nextId, inMemoryCache, paid, taskError>>

\* What the service's makePayment returns on success: it has no return
\* statement.
PaymentResult(booking) == Undefined

\* transaction.commit(); the controller stores the key and answers 201.
PayCommit(p) ==
    /\ Ready
    /\ Paying(p) /\ proc[p].pc = "commit"
    /\ out' = SuccessResponse("makePayment", 201, "Payment made successfully",
                              PaymentResult(bookings[proc[p].bookingId]))
    /\ inMemoryCache' = CachePut(inMemoryCache, proc[p].key)
    /\ paid' = IF proc[p].key \in DOMAIN paid THEN paid
                ELSE (proc[p].key :> out') @@ paid
    /\ proc' = [proc EXCEPT ![p] = Idle]
    /\ UNCHANGED <<now, flight, adjustLog, nextId, bookings, statusSetBy, taskError>>

\* transaction.commit() rejects in makePayment: the catch block rolls back
\* and rethrows; the UPDATE, made outside the transaction, stays, and the
\* key is not stored.
PayCommitFail(p) ==
    /\ Ready
    /\ Paying(p) /\ proc[p].pc = "commit"
    /\ out' = PayRollback(DatabaseError)
    /\ proc' = [proc EXCEPT ![p] = Idle]
    /\ UNCHANGED <<now, flight, adjustLog, nextId, bookings, statusSetBy,
                   inMemoryCache, paid, taskError>>

\* ------------------------------------------------------- cron sweeper
\* Mutant of SweepTick: the service has a cancelOldBookings that hands the
\* repository the time one minute ago.
SweepTickOneMinute ==
    /\ Ready
    /\ bookings' = CancelOldBookings(bookings, now - MsPerMinute)
    /\ statusSetBy' = SetBy(bookings, bookings', "sweep")
    /\ UNCHANGED <<now, flight, adjustLog, nextId, inMemoryCache, paid, proc,
                   out, taskError>>

\* The cron callback, every 10 seconds: it logs, then calls
\* BookingService.cancelOldBookings(), which the service does not export.
\* The call throws before any await, so the callback ends in the step it
\* starts in, with a rejected promise; BookingRepository.cancelOldBookings
\* is never reached and no row is touched.
SweepTick ==
    /\ Ready
    /\ taskError' = TypeError
    /\ UNCHANGED <<now, flight, adjustLog, nextId, bookings, statusSetBy,
                   inMemoryCache, paid, proc, out>>

\* The rejection of the callback has been reported; the schedule goes on.
TaskFailed ==
    /\ taskError # Undefined
    /\ taskError' = Undefined
    /\ UNCHANGED <<now, flight, adjustLog, nextId, bookings, statusSetBy,
                   inMemoryCache, paid, proc, out>>

\* res.status(...).json(...): the response leaves the process.
ResponseSent ==
    /\ Responding
    /\ out' = Undefined
    /\ UNCHANGED <<now, flight, adjustLog, nextId, bookings, statusSetBy,
                   inMemoryCache, paid, proc, taskError>>

\* ---------------------------------------------------------------- Next
\* req.body of POST /bookings; nothing validates noOfSeats, so 0 is an input too.
BookingData == [flightId : Flights, userId : Users, noOfSeats : 0..MaxSeats]
PaymentData == [totalCost : Amounts, userId : Users, bookingId : 1..MaxBookings]

Next ==
    \/ \E d \in TimeSteps : Advance(d)
    \/ \E price \in Prices : SetPrice(price)
    \/ \E p \in Procs, data \in BookingData : CreateStart(p, data)
    \/ \E p \in Procs, data \in BookingData : CreateNoSeats(p, data)
    \/ \E p \in Procs, data \in BookingData : CreateFetchFail(p, data)
    \/ \E p \in Procs, outcome \in {"ok", "fail", "lost"} : CreatePatch(p, outcome)
    \/ \E p \in Procs : CreateCommit(p)
    \/ \E p \in Procs : CreateCommitFail(p)
    \/ \E p \in Procs, k \in Keys, data \in PaymentData : PayNoKey(p, k, data)
    \/ \E p \in Procs, k \in Keys, data \in PaymentData : PayCached(p, k, data)
    \/ \E p \in Procs, k \in Keys, data \in PaymentData : PayStart(p, k, data)
    \/ \E p \in Procs, k \in Keys, data \in PaymentData : PayReject(p, k, data)
    \/ \E p \in Procs, k \in Keys, data \in PaymentData : PayGetMissing(p, k, data)
    \/ \E p \in Procs : PayCancel(p)
    \/ \E p \in Procs : PayBook(p)
    \/ \E p \in Procs : PayCommit(p)
    \/ \E p \in Procs : PayCommitFail(p)
    \/ SweepTick
    \/ TaskFailed
    \/ ResponseSent

Spec == Init /\ [][Next]_vars

\* =====================================================================
\* Claims
\* =====================================================================
Terminal(status) == status \in {BOOKED, CANCELLED}

\* Some request's payment UPDATE runs in this step.
PayWrites == \E p \in Procs : PayCancel(p) \/ PayBook(p)

\* C1: once a booking is booked or cancelled, no step of a makePayment call
\* changes its status, whatever the key, the amount, the user and the time.
C1_PayKeepsTerminal ==
    [][PayWrites =>
         \A i \in DOMAIN bookings :
             Terminal(bookings[i].status) => bookings'[i].status = bookings[i].status]_vars

\* C2: once a payment carrying a key has succeeded, no later makePayment
\* call carrying that key gets past the cache check into the service.
C2_PaidKeyNeverReExecutes ==
    [][\A p \in Procs, k \in Keys, data \in PaymentData :
         (PayStart(p, k, data) \/ PayReject(p, k, data) \/ PayGetMissing(p, k, data))
             => k \notin DOMAIN paid]_vars

\* C3: of the makePayment calls that read a booking as initiated, at most
\* one performs the transition to booked: none writes booked onto a row
\* another call has booked since it read.
C3_AtMostOneBooks ==
    [][\A p \in Procs :
         (PayBook(p) /\ proc[p].seen = INITIATED)
             => bookings[proc[p].bookingId].status # BOOKED]_vars

\* C4: however the steps of makePayment calls and the sweeper's ticks
\* interleave, no step changes the status of a booking that is booked or
\* cancelled.
C4_PayAndSweepKeepTerminal ==
    [][\A i \in DOMAIN bookings :
           Terminal(bookings[i].status) => bookings'[i].status = bookings[i].status]_vars

\* The response on its way out answers a createBooking call with success.
CreateSucceeded == Responding /\ out.op = "createBooking" /\ out.success

\* C5: a booking is committed only if the PATCH /seats of its createBooking
\* call was acknowledged, for its seats; a call whose PATCH was not
\* acknowledged commits no row and is not answered with success.
C5_CommitOnlyAfterAck ==
    /\ \A i \in DOMAIN bookings :
           /\ i \in DOMAIN adjustLog
           /\ adjustLog[i].outcome = "ok"
           /\ adjustLog[i].seats = bookings[i].noOfSeats
    /\ \A i \in DOMAIN adjustLog :
           adjustLog[i].outcome # "ok" =>
               /\ i \notin DOMAIN bookings
               /\ ~(CreateSucceeded /\ out.data.id = i)

\* C5 witness: a PATCH went unacknowledged, the call's row is not in the
\* table, and the call is being answered with an error.
C5_Witness ==
    /\ Responding /\ out.op = "createBooking" /\ ~out.success
    /\ \E i \in DOMAIN adjustLog :
           adjustLog[i].outcome = "fail" /\ i \notin DOMAIN bookings

\* C6: the row a createBooking call commits is initiated and costs
\* noOfSeats times the unit price the call's one flight read returned, and
\* it is the row the call answers with.
C6_CostFixedAtCreation ==
    [][\A p \in Procs :
         CreateCommit(p) =>
             LET id == proc[p].booking.id
             IN /\ id \notin DOMAIN bookings
                /\ bookings'[id].status = INITIATED
                /\ bookings'[id].totalCost = bookings'[id].noOfSeats * proc[p].price
                /\ out' = SuccessResponse("createBooking", 201,
                                          "Booking created successfully", bookings'[id])]_vars

\* C6 witness: a two-seat booking has just been committed, and the flight's
\* price is no longer the one its cost was computed from.
C6_Witness ==
    /\ CreateSucceeded
    /\ out.data.id \in DOMAIN bookings
    /\ out.data.noOfSeats = 2
    /\ out.data.totalCost # out.data.noOfSeats * flight.price

\* C7: createBooking for more seats than the flight has is answered with
\* an error of its own, not the one an unreachable flight service gives;
\* it commits no row and sends no PATCH /seats.
C7_NoSeatsIsDistinct ==
    [][\A p \in Procs, data \in BookingData :
         CreateNoSeats(p, data) =>
             /\ out' # CreateRollback(AxiosError)
             /\ bookings' = bookings
             /\ adjustLog' = adjustLog]_vars

\* C8: a makePayment call that read an initiated booking within the window,
\* with the booking's cost and owner, sets it to booked and answers with
\* the booking.
C8_PayReturnsBooking ==
    [][\A p \in Procs :
         /\ (PayBook(p) /\ proc[p].seen = INITIATED)
                => bookings'[proc[p].bookingId].status = BOOKED
         /\ (PayCommit(p) /\ proc[p].seen = INITIATED)
                => /\ out'.success
                   /\ out'.data = bookings[proc[p].bookingId]]_vars

ExpiryThreshold(currentTime) == currentTime - PaymentWindowMinutes * MsPerMinute

\* What a bulk cancellation with threshold T is to leave in the table.
StaleCancelled(store, T) ==
    [i \in DOMAIN store |->
        IF store[i].createdAt < T /\ store[i].status \in {INITIATED, PENDING}
        THEN [store[i] EXCEPT !.status = CANCELLED]
        ELSE store[i]]

\* C10: a sweeper tick with threshold T cancels every initiated or pending
\* booking with createdAt < T and changes no other booking: none that is
\* booked, cancelled, or not older than T.
C10_SweepCancelsExactlyStale ==
    [][SweepTick => bookings' = StaleCancelled(bookings, ExpiryThreshold(now))]_vars

\* ---------------------------------------------------------------------
\* BookingRepository.cancelOldBookings on its own, on any table: every
\* status, rows older than, at and younger than the threshold.
SweepTimes == {900000, 930000}
SweepRows ==
    {NewBooking(0, [flightId |-> 1, userId |-> 1, noOfSeats |-> 1, totalCost |-> 2], t) :
        t \in {0, 465000}}

SweepInit ==
    /\ now \in SweepTimes
    /\ flight = [totalSeats |-> MaxSeats, price |-> 2]
    /\ adjustLog = <<>>
    /\ nextId = 3
    /\ bookings \in {<<[r1 EXCEPT !.id = 1, !.status = s1], [r2 EXCEPT !.id = 2, !.status = s2]>> :
                        r1 \in SweepRows, r2 \in SweepRows,
                        s1 \in {INITIATED, PENDING, BOOKED, CANCELLED},
                        s2 \in {INITIATED, PENDING, BOOKED, CANCELLED}}
    /\ statusSetBy = <<"create", "create">>
    /\ inMemoryCache = <<>>
    /\ paid = <<>>
    /\ proc = [p \in Procs |-> Idle]
    /\ out = Undefined
    /\ taskError = Undefined

\* Mutant of BulkCancel: every booking the UPDATE cancels has its seats
\* given back to the flight, as a cancellation by hand would.
BulkCancelRestoringSeats(timestamp) ==
    /\ Ready
    /\ bookings' = CancelOldBookings(bookings, timestamp)
    /\ statusSetBy' = SetBy(bookings, bookings', "sweep")
    /\ flight' = [flight EXCEPT !.totalSeats =
                      @ + Cardinality({i \in DOMAIN bookings :
                                          bookings'[i].status # bookings[i].status})]
    /\ UNCHANGED <<now, adjustLog, nextId, inMemoryCache, paid, proc,
                   out, taskError>>

\* A caller of the repository hands cancelOldBookings a timestamp.
BulkCancel(timestamp) ==
    /\ Ready
    /\ bookings' = CancelOldBookings(bookings, timestamp)
    /\ statusSetBy' = SetBy(bookings, bookings', "sweep")
    /\ UNCHANGED <<now, flight, adjustLog, nextId, inMemoryCache, paid, proc,
                   out, taskError>>

SweepNext ==
    \/ \E d \in TimeSteps : Advance(d)
    \/ BulkCancel(ExpiryThreshold(now))
    \/ SweepTick
    \/ TaskFailed

SpecSweep == SweepInit /\ [][SweepNext]_vars

\* The repository's bulk UPDATE, once called, is the bulk cancellation.
BulkCancelIsExact ==
    [][BulkCancel(ExpiryThreshold(now)) =>
           bookings' = StaleCancelled(bookings, ExpiryThreshold(now))]_vars

\* ---------------------------------------------------------------------
\* The booking is older than the payment window.
PastWindow(booking, currentTime) ==
    currentTime - booking.createdAt > PaymentWindowMinutes * MsPerMinute

\* C11: when a sweeper tick has run, every booking that was initiated and
\* older than the payment window is cancelled (so that, with ticks
\* recurring, an unpaid booking does not stay initiated).
C11_TickCancelsUnpaid ==
    [][SweepTick =>
           \A i \in DOMAIN bookings :
               (bookings[i].status = INITIATED /\ PastWindow(bookings[i], now))
                   => bookings'[i].status = CANCELLED]_vars

\* C12: a makePayment call carrying the key of a payment that has succeeded
\* is answered with exactly the response that payment was answered with,
\* and writes no booking.
C12_ReplayReturnsFirstOutcome ==
    [][/\ \A p \in Procs, k \in Keys, data \in PaymentData :
              (PayCached(p, k, data) /\ k \in DOMAIN paid) => out' = paid[k]
       /\ \A p \in Procs :
              ((PayBook(p) \/ PayCancel(p)) /\ proc[p].key \in DOMAIN paid)
                  => bookings' = bookings]_vars

\* A makePayment call with this key and body gets past the cache check and
\* the service reads the booking, in this step.
PayReads(p, k, data) == PayStart(p, k, data) \/ PayReject(p, k, data)

AmountMismatch == PayRollback(AppError("Payment amount mismatch", 400))
OwnerMismatch == PayRollback(AppError("User ID mismatch", 400))

\* C13: a makePayment call that reads an initiated booking within the
\* payment window is answered with the amount-mismatch error when only its
\* amount differs from the booking's cost, with the user-mismatch error
\* when only its user differs from the booking's, with one of the two when
\* both differ; it changes no booking and leaves no transaction open.
C13_MismatchRejected ==
    [][\A p \in Procs, k \in Keys, data \in PaymentData :
         (/\ PayReads(p, k, data)
          /\ bookings[data.bookingId].status = INITIATED
          /\ ~PastWindow(bookings[data.bookingId], now)) =>
             LET booking == bookings[data.bookingId]
                 amountDiffers == data.totalCost # booking.totalCost
                 userDiffers == data.userId # booking.userId
             IN (amountDiffers \/ userDiffers) =>
                    /\ out' \in {AmountMismatch, OwnerMismatch}
                    /\ ~userDiffers => out' = AmountMismatch
                    /\ ~amountDiffers => out' = OwnerMismatch
                    /\ bookings' = bookings
                    /\ proc' = proc]_vars

\* C13 witness: a payment by another user, for the right amount and within
\* the window, is being answered with the user-mismatch error, and the
\* booking is still initiated.
C13_Witness ==
    /\ out = OwnerMismatch
    /\ \E i \in DOMAIN bookings :
           bookings[i].status = INITIATED /\ ~PastWindow(bookings[i], now)

\* A makePayment request with this key and body is taken up in this step.
PayArrives(p, k, data) ==
    \/ PayNoKey(p, k, data)
    \/ PayCached(p, k, data)
    \/ PayStart(p, k, data)
    \/ PayReject(p, k, data)
    \/ PayGetMissing(p, k, data)

MissingIdempotencyToken == PayRollback(AppError("Idempotency key is required", 400))

\* C14: a makePayment request without the x-idempotency-key header is
\* answered with the key-is-required error in the step that takes it up:
\* the cache is neither consulted for an answer nor written, the service is
\* not entered, and no booking is read or changed.
C14_MissingKeyRejectedFirst ==
    [][\A p \in Procs, data \in PaymentData :
         PayArrives(p, "", data) =>
             /\ out' = MissingIdempotencyToken
             /\ proc' = proc
             /\ inMemoryCache' = inMemoryCache
             /\ paid' = paid
             /\ bookings' = bookings]_vars

\* C14 witness: a request without the header is being rejected while a
\* booking exists and the cache holds the key of an earlier payment.
C14_Witness ==
    /\ out = MissingIdempotencyToken
    /\ DOMAIN bookings # {}
    /\ CacheSlot \in DOMAIN inMemoryCache

NotFound == PayRollback(AppError("Not able to find the resource", 404))

\* C15: a makePayment call for a booking id with no row is answered with
\* the not-found error (404); no booking is created or changed and the
\* cache is not written.
C15_MissingBookingNotFound ==
    [][\A p \in Procs, k \in Keys, data \in PaymentData :
         (/\ PayArrives(p, k, data)
          /\ ~KeyMissing(k)
          /\ ~CacheHit(inMemoryCache, k)
          /\ data.bookingId \notin DOMAIN bookings) =>
             /\ out' = NotFound
             /\ bookings' = bookings
             /\ inMemoryCache' = inMemoryCache
             /\ paid' = paid]_vars

\* C16: no step changes the flight, the user, the seats, the cost or the
\* creation time of a committed booking: a step changes at most its
\* status, whatever the flight's price has become.
C16_OnlyStatusChanges ==
    [][\A i \in DOMAIN bookings :
           /\ i \in DOMAIN bookings'
           /\ bookings'[i] = [bookings[i] EXCEPT !.status = bookings'[i].status]]_vars

\* C16 witness: a booking has been booked by a payment, after the flight's
\* price moved away from the one its cost was computed from.
C16_Witness ==
    \E i \in DOMAIN bookings :
        /\ bookings[i].status = BOOKED
        /\ statusSetBy[i] = "pay"
        /\ bookings[i].totalCost # bookings[i].noOfSeats * flight.price

\* What a createBooking call is answered with when the flight service
\* cannot be used: 500.
InventoryUnavailable ==
    ErrorResponse("createBooking", "Failed to create booking",
                  AppError("Cannot create a new booking object", 500))

\* C18: a createBooking call whose GET of the flight fails is answered with
\* the 500 error; its transaction is over, no row is inserted or committed
\* and no PATCH /seats is sent.
C18_FetchFailureAborts ==
    [][\A p \in Procs, data \in BookingData :
         CreateFetchFail(p, data) =>
             /\ out' = InventoryUnavailable
             /\ proc'[p] = Idle
             /\ bookings' = bookings
             /\ nextId' = nextId
             /\ adjustLog' = adjustLog
             /\ flight' = flight]_vars

\* C18 witness: a createBooking call is being answered with the 500 error
\* while the flight has all its seats and no PATCH was ever sent: the GET
\* failed.
C18_Witness ==
    /\ out = InventoryUnavailable
    /\ flight.totalSeats = MaxSeats
    /\ adjustLog = <<>>
    /\ bookings = <<>>

\* The seats of call i were taken from the flight, and no row i is committed.
SeatsTakenWithoutBooking(i) ==
    /\ i \in DOMAIN adjustLog
    /\ adjustLog[i].outcome \in {"ok", "lost"}
    /\ i \notin DOMAIN bookings

\* C19: a createBooking call is answered with success only with the row it
\* committed; a call whose commit fails after its PATCH /seats took effect
\* is answered with an error, and commits nothing.
C19_SuccessOnlyIfCommitted ==
    [][/\ (out' # Undefined /\ out'.op = "createBooking" /\ out'.success) =>
              /\ out'.data # Undefined
              /\ out'.data.id \in DOMAIN bookings'
              /\ bookings'[out'.data.id] = out'.data
       /\ \A p \in Procs :
              (Creating(p) /\ proc[p].pc = "commit" /\ proc'[p] = Idle
                  /\ proc[p].booking.id \notin DOMAIN bookings')
                  => (out' # Undefined /\ ~out'.success)]_vars

\* C19 witness: the seats of a call were taken from the flight, the call
\* has ended without a committed row, and it is being answered with an
\* error.
C19_Witness ==
    /\ Responding /\ out.op = "createBooking" /\ ~out.success
    /\ \E i \in DOMAIN adjustLog :
           /\ adjustLog[i].outcome = "ok"
           /\ SeatsTakenWithoutBooking(i)
           /\ \A p \in Procs : ~Creating(p)

\* C20: every committed booking has at least one seat and a cost that is
\* not negative, and no PATCH /seats was ever sent for fewer than one seat:
\* a createBooking request for fewer is turned away before it inserts or
\* sends anything.
C20_SeatsArePositive ==
    /\ \A i \in DOMAIN bookings :
           bookings[i].noOfSeats >= 1 /\ bookings[i].totalCost >= 0
    /\ \A i \in DOMAIN adjustLog : adjustLog[i].seats >= 1

\* C21: once the cache answers for a key, it answers for it after every
\* later step, with the same stored value: a later payment, with the same
\* key or with another, neither removes nor replaces the entry.
C21_CacheEntryIsKept ==
    [][\A k \in Keys \ {""} :
           CacheHit(inMemoryCache, k) =>
               /\ CacheHit(inMemoryCache', k)
               /\ CacheGet(inMemoryCache', k) = CacheGet(inMemoryCache, k)]_vars

\* C22: no step removes a row of the Bookings table, and a step that
\* cancels a booking changes nothing of its row but the status.
C22_NoBookingRemoved ==
    [][/\ DOMAIN bookings \subseteq DOMAIN bookings'
       /\ \A i \in DOMAIN bookings \cap DOMAIN bookings' :
              (bookings[i].status # CANCELLED /\ bookings'[i].status = CANCELLED)
                  => bookings'[i] = [bookings[i] EXCEPT !.status = CANCELLED]]_vars

\* C22 witness: a booking cancelled by a payment past the window is still
\* in the table.
C22_Witness ==
    \E i \in DOMAIN bookings :
        /\ bookings[i].status = CANCELLED
        /\ statusSetBy[i] = "pay"
        /\ i \in DOMAIN adjustLog

\* C23: neither a tick of the cron callback nor the repository's bulk
\* cancellation sends anything to the flight service: the flight's seats
\* and the PATCH /seats requests received are as before.
C23_SweepLeavesInventory ==
    [][(SweepTick \/ BulkCancel(ExpiryThreshold(now)))
           => (flight' = flight /\ adjustLog' = adjustLog)]_vars

\* C23 witness: the bulk cancellation has cancelled a booking, and the
\* flight service has received nothing.
C23_Witness ==
    /\ \E i \in DOMAIN bookings :
           bookings[i].status = CANCELLED /\ statusSetBy[i] = "sweep"
    /\ flight.totalSeats = MaxSeats
    /\ adjustLog = <<>>

\* ---------------------------------------------------------------------
\* What the process and its database do without waiting for anybody: a
\* commit is answered, a response or a report on its way out leaves.
\* The answer of the flight service to axios.get and axios.patch is not
\* among them: the calls are made without a timeout, so nothing in the
\* process makes CreatePatch happen.  (Strong fairness, because a step of a
\* request waits here while a response is on its way out.)
Fairness ==
    /\ \A p \in Procs : SF_vars(CreateCommit(p) \/ CreateCommitFail(p))
    /\ \A p \in Procs : SF_vars(PayCancel(p) \/ PayBook(p) \/ PayCommit(p) \/ PayCommitFail(p))
    /\ WF_vars(ResponseSent)
    /\ WF_vars(TaskFailed)

SpecLive == Init /\ [][Next]_vars /\ Fairness

\* C24: every createBooking call in progress comes to its end (answered,
\* its transaction committed or rolled back), also when the flight
\* service never answers.
C24_CreateReturns ==
    \A p \in Procs : Creating(p) ~> ~Creating(p)

\* ---------------------------------------------------------------------
\* Concurrent createBooking calls for the one flight: the table has room
\* for two more rows, both request slots are free, the flight service
\* applies each PATCH /seats in one step and refuses one it cannot serve
\* (the guard of CreatePatch).
CreateInit ==
    /\ now = 0
    /\ flight \in [totalSeats : {MaxSeats}, price : Prices]
    /\ adjustLog = <<>>
    /\ nextId = MaxBookings - 1
    /\ bookings = <<>>
    /\ statusSetBy = <<>>
    /\ inMemoryCache = <<>>
    /\ paid = <<>>
    /\ proc = [p \in Procs |-> Idle]
    /\ out = Undefined
    /\ taskError = Undefined

CreateNext ==
    \/ \E p \in Procs, data \in BookingData : CreateStart(p, data)
    \/ \E p \in Procs, data \in BookingData : CreateNoSeats(p, data)
    \/ \E p \in Procs, data \in BookingData : CreateFetchFail(p, data)
    \/ \E p \in Procs, outcome \in {"ok", "fail", "lost"} : CreatePatch(p, outcome)
    \/ \E p \in Procs : CreateCommit(p)
    \/ \E p \in Procs : CreateCommitFail(p)
    \/ ResponseSent

SpecCreate == CreateInit /\ [][CreateNext]_vars

\* The seats of the committed bookings with these ids.
RECURSIVE SeatsBooked(_)
SeatsBooked(ids) ==
    IF ids = {} THEN 0
    ELSE LET i == CHOOSE i \in ids : TRUE
         IN bookings[i].noOfSeats + SeatsBooked(ids \ {i})

\* C25: however concurrent createBooking calls for the flight interleave,
\* the seats of the committed bookings never add up to more than the seats
\* the flight had.
C25_NeverOverbooked ==
    SeatsBooked(DOMAIN bookings) <= MaxSeats

\* C25 witness: two calls both passed the capacity check; one is committed
\* with all the seats of the flight, the PATCH of the other was refused.
C25_Witness ==
    \E i \in DOMAIN bookings, j \in DOMAIN adjustLog :
        /\ i # j
        /\ bookings[i].noOfSeats = MaxSeats
        /\ adjustLog[j].outcome = "fail"
        /\ adjustLog[j].seats >= 1
        /\ flight.totalSeats = 0

\* C26: a makePayment call goes on to set a booking to booked only if, when
\* it read the booking, no more than the payment window (15 minutes) had
\* passed since the booking was created; one that reads it later, by
\* however little, goes on to cancel it.
C26_BooksOnlyWithinWindow ==
    [][\A p \in Procs, k \in Keys, data \in PaymentData :
         (PayStart(p, k, data) /\ bookings[data.bookingId].status = INITIATED) =>
             IF PastWindow(bookings[data.bookingId], now)
             THEN proc'[p].pc = "cancel"
             ELSE proc'[p].pc = "book"]_vars

\* makePayment still accepts a payment for the booking at currentTime.
PayAccepts(booking, currentTime) ==
    DiffInMinutes(currentTime, booking.createdAt) <= PaymentWindowMinutes

PayNext ==
    \/ \E d \in TimeSteps : Advance(d)
    \/ \E p \in Procs, k \in Keys, data \in PaymentData : PayNoKey(p, k, data)
    \/ \E p \in Procs, k \in Keys, data \in PaymentData : PayCached(p, k, data)
    \/ \E p \in Procs, k \in Keys, data \in PaymentData : PayStart(p, k, data)
    \/ \E p \in Procs, k \in Keys, data \in PaymentData : PayReject(p, k, data)
    \/ \E p \in Procs : PayCancel(p)
    \/ \E p \in Procs : PayBook(p)
    \/ \E p \in Procs : PayCommit(p)
    \/ \E p \in Procs : PayCommitFail(p)
    \/ ResponseSent

SpecPay == SweepInit /\ [][PayNext]_vars

PaymentWindowExpired == PayRollback(AppError("Booking payment time expired", 400))

\* C28: a makePayment call that reads a cancelled booking is answered with
\* the payment-time-expired error and writes nothing, whatever the time
\* passed, the amount and the user.
C28_CancelledIsRejected ==
    [][\A p \in Procs, k \in Keys, data \in PaymentData :
         (PayReads(p, k, data) /\ bookings[data.bookingId].status = CANCELLED) =>
             /\ out' = PaymentWindowExpired
             /\ bookings' = bookings
             /\ proc' = proc]_vars

\* C28 witness: a payment for a booking that was cancelled before any
\* payment wrote it, and is still younger than the payment window, is
\* being answered with the error.
C28_Witness ==
    /\ out = PaymentWindowExpired
    /\ \E i \in DOMAIN bookings :
           /\ bookings[i].status = CANCELLED
           /\ statusSetBy[i] = "create"
           /\ PayAccepts(bookings[i], now)
    /\ \A i \in DOMAIN bookings : statusSetBy[i] = "create"

\* C29: a makePayment call that reads an initiated booking older than the
\* payment window with an amount or a user that does not match goes on to
\* cancel it all the same, and is not answered with the amount-mismatch or
\* the user-mismatch error.
C29_WindowBeforeMismatch ==
    [][\A p \in Procs, k \in Keys, data \in PaymentData :
         (/\ PayReads(p, k, data)
          /\ bookings[data.bookingId].status = INITIATED
          /\ PastWindow(bookings[data.bookingId], now)
          /\ \/ data.totalCost # bookings[data.bookingId].totalCost
             \/ data.userId # bookings[data.bookingId].userId) =>
             /\ out' \notin {AmountMismatch, OwnerMismatch}
             /\ proc'[p].kind = "pay"
             /\ proc'[p].pc = "cancel"]_vars

\* C30: a booking becomes booked only in the UPDATE of a makePayment call,
\* and a makePayment call goes on to that UPDATE only if its amount is the
\* booking's cost and its user the booking's user.
C30_BookedOnlyByMatchingPay ==
    [][/\ \A i \in DOMAIN bookings' :
              (bookings'[i].status = BOOKED
                  /\ (i \in DOMAIN bookings => bookings[i].status # BOOKED))
                  => \E p \in Procs :
                         PayBook(p) /\ proc[p].bookingId = i /\ proc[p].pc = "book"
       /\ \A p \in Procs, k \in Keys, data \in PaymentData :
              (PayStart(p, k, data) /\ proc'[p].pc = "book")
                  => /\ data.totalCost = bookings[data.bookingId].totalCost
                     /\ data.userId = bookings[data.bookingId].userId]_vars

\* C30 witness: a booking was booked by a payment, which has been answered.
C30_Witness ==
    /\ paid # <<>>
    /\ \E i \in DOMAIN bookings :
           bookings[i].status = BOOKED /\ statusSetBy[i] = "pay"

\* C31: a makePayment call that ends with an error (no row, payment time
\* expired, amount or user mismatch) leaves inMemoryCache as it was; when
\* it is rejected on arrival, a later call with its key still misses the
\* cache and enters the service again.
C31_FailedPayLeavesCache ==
    [][/\ \A p \in Procs, k \in Keys, data \in PaymentData :
              (PayReject(p, k, data) \/ PayGetMissing(p, k, data)) =>
                  /\ inMemoryCache' = inMemoryCache
                  /\ ~CacheHit(inMemoryCache', k)
       /\ \A p \in Procs : PayCancel(p) => inMemoryCache' = inMemoryCache]_vars

\* C31 witness: a payment is being rejected for its amount while the cache
\* holds the key of an earlier payment, and no other.
C31_Witness ==
    /\ out = AmountMismatch
    /\ CacheSlot \in DOMAIN inMemoryCache
    /\ DOMAIN paid = {inMemoryCache[CacheSlot]}

\* C32: inMemoryCache is written only by a makePayment call that has set
\* its booking to booked, and the booking is booked when the key is stored.
C32_CachedOnlyWhenBooked ==
    [][inMemoryCache' # inMemoryCache =>
           \E p \in Procs :
               /\ PayCommit(p)
               /\ inMemoryCache' = CachePut(inMemoryCache, proc[p].key)
               /\ bookings[proc[p].bookingId].status = BOOKED]_vars

\* C33: right after the bulk cancellation with a threshold, the same
\* UPDATE with the same threshold matches no row and changes no booking;
\* and a tick of the cron callback changes no booking either.
C33_SweepIsIdempotent ==
    [][/\ BulkCancel(ExpiryThreshold(now)) =>
              /\ \A i \in DOMAIN bookings' :
                     ~CancelWhere(bookings'[i], ExpiryThreshold(now))
              /\ CancelOldBookings(bookings', ExpiryThreshold(now)) = bookings'
       /\ SweepTick => bookings' = bookings]_vars

\* C33 witness: the bulk cancellation has cancelled a booking, next to one
\* older than the threshold that was cancelled before.
C33_Witness ==
    \E i \in DOMAIN bookings, j \in DOMAIN bookings :
        /\ bookings[i].status = CANCELLED /\ statusSetBy[i] = "sweep"
        /\ bookings[j].status = CANCELLED /\ statusSetBy[j] = "create"
        /\ bookings[j].createdAt < ExpiryThreshold(now)

\* C34: a createBooking call sends PATCH /seats at most once, acknowledged
\* or not, for exactly the seats it was asked for; it reads the flight
\* once, in the step it starts with, and the flight loses those seats or
\* none.
C34_OnePatchPerCall ==
    [][\A p \in Procs, outcome \in {"ok", "fail", "lost"} :
         CreatePatch(p, outcome) =>
             LET id == proc[p].booking.id
             IN /\ id \notin DOMAIN adjustLog
                /\ DOMAIN adjustLog' = DOMAIN adjustLog \cup {id}
                /\ adjustLog'[id].seats = proc[p].booking.noOfSeats
                /\ flight'.totalSeats \in
                       {flight.totalSeats, flight.totalSeats - proc[p].booking.noOfSeats}
                /\ ~(proc'[p].kind = "create" /\ proc'[p].pc = "patch")]_vars

\* C34 witness: the PATCH of a call for two seats was refused, the call
\* has ended and been answered, and the flight has all its seats.
C34_Witness ==
    /\ Ready
    /\ \A p \in Procs : proc[p] = Idle
    /\ \E i \in DOMAIN adjustLog :
           adjustLog[i].outcome = "fail" /\ adjustLog[i].seats = 2
    /\ flight.totalSeats = MaxSeats

\* C35: no committed booking is pending: every booking is initiated,
\* booked or cancelled.
C35_NeverPending ==
    \A i \in DOMAIN bookings : bookings[i].status \in {INITIATED, BOOKED, CANCELLED}

\* C35 witness: a booking has been created, paid, and then cancelled by a
\* later payment.
C35_Witness ==
    /\ paid # <<>>
    /\ \E i \in DOMAIN bookings :
           bookings[i].status = CANCELLED /\ statusSetBy[i] = "pay"

\* The transaction of the call in slot p, open before the step, is ended
\* by the step: the call is over.
Ends(p) == proc[p] # Idle /\ proc'[p] = Idle

====
